---- MODULE Spec2Model ----
(***************************************************************************)
(* DistChat (src/DistributedChat.py): a peer-to-peer chat node.  Every     *)
(* node is one process holding a ChatClient (the command thread) and the   *)
(* ChatServer it started (the event-loop thread).  The model holds the     *)
(* fields of every node's ChatServer, the position of its two threads, and *)
(* the TCP connections between the nodes.                                  *)
(***************************************************************************)
EXTENDS Integers, Sequences, FiniteSets, TLC

(* ------------------------------ bounds -------------------------------- *)
\* connections ever opened (loopback ones included)
MaxConn == 8
\* do_connect commands over all nodes
MaxJoins == 2
\* chat lines typed over all nodes
MaxChats == 1
\* do_exit commands over all nodes
MaxExits == 1
\* urgent (out-of-band) segments the network delivers
MaxUrgent == 1
\* messages a socket's receive buffer holds before the sender stops being writable
SockBuf == 2

(* --------------------------- program constants ------------------------ *)
\* ChatClient.__init__(port=2017): the port every node listens on
PORT == 2017
LOOPBACK == "127.0.0.1"
\* the handle of a node's own listening socket (self.server) in self.inputs
SERVER == 0
\* the hosts; a node's user name is its host name
Nodes == {"a", "b", "c"}
EXIT == "\\exit"
CLIENTS == "\\clients"

(* ------------------------------ helpers ------------------------------- *)
Range(s) == {s[i] : i \in DOMAIN s}

\* Op applied to the value of v, which is worked out once
With(v, Op(_)) == CHOOSE r \in {Op(x) : x \in {v}} : TRUE

RECURSIVE Remove(_, _)
\* list.remove(x): drops the first occurrence
Remove(s, x) ==
    IF s = <<>> THEN <<>>
    ELSE IF Head(s) = x THEN Tail(s) ELSE <<Head(s)>> \o Remove(Tail(s), x)

\* a dict kept in insertion order, as a sequence of <<key, value>>
Keys(d) == {d[i][1] : i \in DOMAIN d}
Values(d) == [i \in DOMAIN d |-> d[i][2]]
DictSet(d, k, v) ==
    IF k \in Keys(d) THEN [i \in DOMAIN d |-> IF d[i][1] = k THEN <<k, v>> ELSE d[i]]
    ELSE Append(d, <<k, v>>)
DictDel(d, k) == SelectSeq(d, LAMBDA e : e[1] # k)

\* the two ends of connection c, the other end of a socket, its connection
ClientEnd(c) == 2 * c - 1
ServerEnd(c) == 2 * c
Peer(s) == IF s % 2 = 1 THEN s + 1 ELSE s - 1
ConnOf(s) == (s + 1) \div 2
IsClientEnd(s) == s % 2 = 1

VARIABLES
    \* ChatServer fields, per node
    running, inputs, outputs, message_queues, clients, messages,
    \* the event-loop thread: "select", "stopped", "crashed", "dead"
    pc,
    \* the exception that ended the event-loop thread ("" when none)
    crash,
    \* ChatClient: the command thread's position, its socket, do_connect's argument
    cmd, sock, target,
    \* the exception the last call made from the command side raised ("" when none)
    raised,
    \* the network: connections, listening sockets and their accept queues,
    \* per socket the unread bytes, whether it is open, reset, has urgent data
    conn, listening, backlog, rcvbuf, open, rst, oob,
    \* observation: per socket what was enqueued and what was written, per node
    \* the connect_to calls made and the handles remove_connection has removed
    enq, written, calls, torn,
    \* how many commands of each kind were issued
    njoin, nchat, nexit, nurgent,
    \* the wire codec on its own: a message, its encoding, the decoded message,
    \* and how far the round trip has got ("off", "encode", "decode", "done")
    codec_msg, codec_wire, codec_out, codec_pc

srvvars == <<running, inputs, outputs, message_queues, clients, messages, pc, crash>>
cmdvars == <<cmd, sock, target, raised>>
netvars == <<conn, listening, backlog, rcvbuf, open, rst, oob>>
obsvars == <<enq, written, calls, torn>>
cntvars == <<njoin, nchat, nexit, nurgent>>
codecvars == <<codec_msg, codec_wire, codec_out, codec_pc>>
vars == <<srvvars, cmdvars, netvars, obsvars, cntvars, codecvars>>

(* ----------------------------- wire codec ----------------------------- *)
\* the four message variants of the protocol
Chat(u, t) == [kind |-> "Chat", user |-> u, text |-> t]
Leave(u) == [kind |-> "Leave", user |-> u]
MembershipRequest(u) == [kind |-> "MembershipRequest", user |-> u]
MembershipResponse(ps) == [kind |-> "MembershipResponse", peers |-> ps]

\* json.dumps({'user': self.user, 'message': string}).encode()
EncodeChat(u, string) == [user |-> u, message |-> string]
\* json.dumps({'user': self.user, 'message': '\exit'}).encode()
EncodeLeave(u) == [user |-> u, message |-> EXIT]
\* json.dumps({'user': self.user, 'message': '\clients'}).encode()
EncodeRequest(u) == [user |-> u, message |-> CLIENTS]
\* json.dumps({'clients': [...]}).encode()
EncodeResponse(ps) == [clients |-> ps]

Encode(m) ==
    CASE m.kind = "Chat" -> EncodeChat(m.user, m.text)
      [] m.kind = "Leave" -> EncodeLeave(m.user)
      [] m.kind = "MembershipRequest" -> EncodeRequest(m.user)
      [] m.kind = "MembershipResponse" -> EncodeResponse(m.peers)

\* the variant the event loop takes a decoded object for: the if/elif cascade of run
Decode(data) ==
    IF "clients" \in DOMAIN data THEN MembershipResponse(data.clients)
    ELSE IF data.message = EXIT THEN Leave(data.user)
    ELSE IF data.message = CLIENTS THEN MembershipRequest(data.user)
    ELSE Chat(data.user, data.message)

\* the variant and the fields the protocol gives it (a MembershipRequest has none)
SameMessage(m1, m2) ==
    /\ m1.kind = m2.kind
    /\ m1.kind \in {"Chat", "Leave"} => m1.user = m2.user
    /\ m1.kind = "Chat" => m1.text = m2.text
    /\ m1.kind = "MembershipResponse" => m1.peers = m2.peers

(* ------------------------------ sockets ------------------------------- *)
\* the port the client end of connection c is bound to (an ephemeral port)
Eph(c) == c

\* sock.getpeername() over connection table cn
PeerName(cn, s) ==
    LET c == cn[ConnOf(s)] IN
    IF IsClientEnd(s) THEN <<IF c.lo THEN LOOPBACK ELSE c.to, PORT>>
    ELSE <<IF c.lo THEN LOOPBACK ELSE c.from, Eph(ConnOf(s))>>

\* sock.getsockname()[0]
SockHost(cn, s) ==
    LET c == cn[ConnOf(s)] IN
    IF c.lo THEN LOOPBACK ELSE IF IsClientEnd(s) THEN c.from ELSE c.to

\* the process that owns socket s
Owner(cn, s) == IF IsClientEnd(s) THEN cn[ConnOf(s)].from ELSE cn[ConnOf(s)].to

(* The part of the state one handler works on: node n's ChatServer fields, *)
(* the network and the observation, threaded through the handler's steps.  *)
(* err is the exception raised so far ("" when none).                      *)
World(n) ==
    [inputs |-> inputs[n], outputs |-> outputs[n],
     message_queues |-> message_queues[n], clients |-> clients[n],
     messages |-> messages[n], calls |-> calls[n], torn |-> torn[n],
     conn |-> conn, listening |-> listening, backlog |-> backlog,
     rcvbuf |-> rcvbuf, open |-> open, rst |-> rst, oob |-> oob,
     enq |-> enq, written |-> written, err |-> ""]

\* the handler's result becomes the next state
Commit(n, W) ==
    /\ inputs' = [inputs EXCEPT ![n] = W.inputs]
    /\ outputs' = [outputs EXCEPT ![n] = W.outputs]
    /\ message_queues' = [message_queues EXCEPT ![n] = W.message_queues]
    /\ clients' = [clients EXCEPT ![n] = W.clients]
    /\ messages' = [messages EXCEPT ![n] = W.messages]
    /\ calls' = [calls EXCEPT ![n] = W.calls]
    /\ torn' = [torn EXCEPT ![n] = W.torn]
    /\ conn' = W.conn
    /\ listening' = W.listening
    /\ backlog' = W.backlog
    /\ rcvbuf' = W.rcvbuf
    /\ open' = W.open
    /\ rst' = W.rst
    /\ oob' = W.oob
    /\ enq' = W.enq
    /\ written' = W.written

\* socket.socket() + connect((host, port)): a new connection from n's process,
\* waiting in the listener's accept queue
NewConn(W0, n, to, lo) == With(W0, LAMBDA W :
    LET c == Len(W.conn) + 1
        a == ClientEnd(c)
        b == ServerEnd(c)
    IN [W EXCEPT !.conn = Append(@, [from |-> n, to |-> to, lo |-> lo]),
                 !.backlog[to] = Append(@, c),
                 !.rcvbuf = @ @@ (a :> <<>>) @@ (b :> <<>>),
                 !.open = @ @@ (a :> TRUE) @@ (b :> TRUE),
                 !.rst = @ @@ (a :> FALSE) @@ (b :> FALSE),
                 !.oob = @ @@ (a :> FALSE) @@ (b :> FALSE),
                 !.enq = @ @@ (a :> <<>>) @@ (b :> <<>>),
                 !.written = @ @@ (a :> <<>>) @@ (b :> <<>>)]
    )

\* sock.close(): closing with bytes still unread resets the connection
Close(W0, s) == With(W0, LAMBDA W :
    [W EXCEPT !.open[s] = FALSE, !.rcvbuf[s] = <<>>, !.oob[s] = FALSE,
              !.rst[Peer(s)] = @ \/ (W.open[s] /\ W.open[Peer(s)] /\ W.rcvbuf[s] # <<>>)]
    )

\* out_socket.send(mess): a reset connection raises; bytes sent to a peer that
\* closed are discarded and answered by a reset
Send(W0, s, mess) == With(W0, LAMBDA W :
    IF W.rst[s] THEN [W EXCEPT !.err = "BrokenPipeError"]
    ELSE IF ~W.open[Peer(s)]
    THEN [W EXCEPT !.rst[s] = TRUE, !.written[s] = Append(@, mess)]
    ELSE [W EXCEPT !.rcvbuf[Peer(s)] = Append(@, mess),
                   !.written[s] = Append(@, mess)]
    )

(* --------------------------- ChatServer methods ----------------------- *)
\* add_connection that leaves self.clients alone
add_connection_unregistered(W0, s) == With(W0, LAMBDA W :
    [W EXCEPT !.inputs = Append(@, s),
              !.outputs = Append(@, s),
              !.message_queues = [k \in (DOMAIN @) \cup {s} |-> IF k = s THEN <<>> ELSE @[k]]]
    )

add_connection(W0, s) == With(W0, LAMBDA W :
    [W EXCEPT !.inputs = Append(@, s),
              !.outputs = Append(@, s),
              !.message_queues = [k \in (DOMAIN @) \cup {s} |-> IF k = s THEN <<>> ELSE @[k]],
              !.clients = DictSet(@, s, PeerName(W.conn, s))]
    )

\* each statement runs only if the one before it raised nothing
remove_connection(W0, s) == With(W0, LAMBDA W :
    IF s \notin Range(W.outputs) THEN [W EXCEPT !.err = "ValueError"]
    ELSE LET W1 == [W EXCEPT !.outputs = Remove(@, s)] IN
    IF s \notin Range(W1.inputs) THEN [W1 EXCEPT !.err = "ValueError"]
    ELSE LET W2 == [W1 EXCEPT !.inputs = Remove(@, s)] IN
    IF s \notin DOMAIN W2.message_queues THEN [W2 EXCEPT !.err = "KeyError"]
    ELSE LET W3 == [W2 EXCEPT !.message_queues =
                        [k \in (DOMAIN @) \ {s} |-> @[k]]] IN
    IF s \notin Keys(W3.clients) THEN [W3 EXCEPT !.err = "KeyError"]
    ELSE Close([W3 EXCEPT !.clients = DictDel(@, s), !.torn = @ \cup {s}], s)
    )

\* connect_sock.connect((host, port)) succeeds when a process listens there;
\* "bound" marks a connection the model has no room for
connect_to(W0, n, host, port) == With(W0, LAMBDA W :
    LET W1 == [W EXCEPT !.calls = Append(@, <<host, port>>)]
        to == IF host = LOOPBACK THEN n ELSE host
    IN IF ~(to \in Nodes /\ port = PORT /\ W1.listening[to])
       THEN [W1 EXCEPT !.err = "ConnectionRefusedError"]
       ELSE IF Len(W1.conn) >= MaxConn THEN [W1 EXCEPT !.err = "bound"]
       ELSE add_connection(NewConn(W1, n, to, host = LOOPBACK),
                           ClientEnd(Len(W1.conn) + 1))
    )

RECURSIVE RemoveEach(_, _)
RemoveEach(W0, conns) == With(W0, LAMBDA W :
    IF conns = <<>> \/ W.err # "" THEN W
    ELSE RemoveEach(remove_connection(W, Head(conns)), Tail(conns))
    )

\* for conn in self.outputs[:]: self.remove_connection(conn)
close_all(W0) == With(W0, LAMBDA W : RemoveEach(W, W.outputs))

\* Queue.put(mess) on socket s's queue
Put(W0, s, mess) == With(W0, LAMBDA W :
    [W EXCEPT !.message_queues[s] = Append(@, mess),
              !.enq[s] = Append(@, mess)]
    )

RECURSIVE PutEach(_, _, _)
PutEach(W0, socks, mess) == With(W0, LAMBDA W :
    IF socks = {} THEN W
    ELSE LET s == CHOOSE x \in socks : TRUE
         IN PutEach(Put(W, s, mess), socks \ {s}, mess)
    )

\* for outs in self.message_queues.values(): outs.put(mess)
output_message(W0, mess) == With(W0, LAMBDA W : PutEach(W, DOMAIN W.message_queues, mess))

\* send_message that puts the message on every queue
send_message_all(W0, mess, s) == With(W0, LAMBDA W :
    IF s \notin DOMAIN W.message_queues THEN [W EXCEPT !.err = "KeyError"]
    ELSE PutEach(W, DOMAIN W.message_queues, mess)
    )

\* self.message_queues[sock].put(mess)
send_message(W0, mess, s) == With(W0, LAMBDA W :
    IF s \notin DOMAIN W.message_queues THEN [W EXCEPT !.err = "KeyError"]
    ELSE Put(W, s, mess)
    )

(* ------------------------- the event loop: run ------------------------ *)
\* what select reports for the sockets of node n
Readable(n, s) ==
    IF s = SERVER THEN listening[n] /\ backlog[n] # <<>>
    ELSE rcvbuf[s] # <<>> \/ ~open[Peer(s)] \/ rst[s]
Writable(n, s) ==
    Len(rcvbuf[Peer(s)]) < SockBuf \/ ~open[Peer(s)] \/ rst[s]
Exceptional(n, s) == s # SERVER /\ oob[s]

select_readable(n) == SelectSeq(inputs[n], LAMBDA s : Readable(n, s))
select_writable(n) == SelectSeq(outputs[n], LAMBDA s : Writable(n, s))
select_exceptional(n) == SelectSeq(inputs[n], LAMBDA s : Exceptional(n, s))

\* select returns once a socket is ready
SelectReady(n) ==
    select_readable(n) # <<>> \/ select_writable(n) # <<>> \/ select_exceptional(n) # <<>>

\* for s in exceptional: ... self.remove_connection(s)
RECURSIVE HandleExceptional(_, _)
HandleExceptional(W0, ex) == With(W0, LAMBDA W :
    IF ex = <<>> \/ W.err # "" THEN W
    ELSE HandleExceptional(remove_connection(W, Head(ex)), Tail(ex))
    )

\* a write step that sends everything the queue holds
RECURSIVE WriteAll(_, _)
WriteAll(W0, s) == With(W0, LAMBDA W :
    IF s \notin DOMAIN W.message_queues THEN [W EXCEPT !.err = "KeyError"]
    ELSE IF W.message_queues[s] = <<>> \/ W.err # "" THEN W
    ELSE WriteAll(Send([W EXCEPT !.message_queues[s] = Tail(@)], s, Head(W.message_queues[s])), s)
    )

\* a write step that takes the newest message of the queue, not the oldest
WriteNewest(W0, s) == With(W0, LAMBDA W :
    IF s \notin DOMAIN W.message_queues THEN [W EXCEPT !.err = "KeyError"]
    ELSE IF W.message_queues[s] = <<>> THEN W
    ELSE LET q == W.message_queues[s]
         IN Send([W EXCEPT !.message_queues[s] = SubSeq(q, 1, Len(q) - 1)], s, q[Len(q)])
    )

\* if not self.message_queues[out_socket].empty():
\*     out_socket.send(self.message_queues[out_socket].get())
WriteOne(W0, s) == With(W0, LAMBDA W :
    IF s \notin DOMAIN W.message_queues THEN [W EXCEPT !.err = "KeyError"]
    ELSE IF W.message_queues[s] = <<>> THEN W
    ELSE Send([W EXCEPT !.message_queues[s] = Tail(@)], s, Head(W.message_queues[s]))
    )

RECURSIVE HandleWritable(_, _)
HandleWritable(W0, wr) == With(W0, LAMBDA W :
    IF wr = <<>> \/ W.err # "" THEN W
    ELSE HandleWritable(WriteOne(W, Head(wr)), Tail(wr))
    )

\* connection, client_address = in_socket.accept() ... self.add_connection(connection)
Accept(W0, n) == With(W0, LAMBDA W :
    LET c == Head(W.backlog[n])
        s == ServerEnd(c)
        client_address == PeerName(W.conn, s)
        W1 == [W EXCEPT !.backlog[n] = Tail(@)]
        W2 == IF client_address[1] # LOOPBACK
              THEN [W1 EXCEPT !.messages = Append(@, <<"New connection from", client_address>>)]
              ELSE W1
    IN add_connection(W2, s)
    )

\* gossip that connects to every advertised endpoint as advertised
GossipTargetsAdvertised(ourhost, client_list, port) ==
    SelectSeq(client_list, LAMBDA e : e[1] # LOOPBACK /\ ourhost # e[1])

\* gossip that does not skip the node's own address
GossipTargetsUnfiltered(ourhost, client_list, port) ==
    LET keep == SelectSeq(client_list, LAMBDA e : e[1] # LOOPBACK)
    IN [i \in DOMAIN keep |-> <<keep[i][1], port>>]

\* gossip that connects to nobody
GossipTargetsNone(ourhost, client_list, port) == <<>>

\* for host, port in data['clients']: if host != '127.0.0.1' and ourhost != host:
\*     self.connect_to(host, self.port)
GossipTargets(ourhost, client_list, port) ==
    LET keep == SelectSeq(client_list, LAMBDA e : e[1] # LOOPBACK /\ ourhost # e[1])
    IN [i \in DOMAIN keep |-> <<keep[i][1], port>>]

RECURSIVE ConnectEach(_, _, _)
ConnectEach(W0, n, targets) == With(W0, LAMBDA W :
    IF targets = <<>> \/ W.err # "" THEN W
    ELSE ConnectEach(connect_to(W, n, Head(targets)[1], Head(targets)[2]), n, Tail(targets))
    )

\* the branches of run for one decoded object
Dispatch(W0, n, s, data) == With(W0, LAMBDA W :
    LET m == Decode(data) IN
    CASE m.kind = "MembershipResponse" ->
           ConnectEach(W, n, GossipTargets(SockHost(W.conn, s), m.peers, PORT))
      [] m.kind = "Leave" ->
           remove_connection(
               [W EXCEPT !.messages = Append(@, <<"has left the chat", m.user, PeerName(W.conn, s)>>)],
               s)
      [] m.kind = "MembershipRequest" ->
           send_message(W, EncodeResponse(Values(W.clients)), s)
      [] m.kind = "Chat" ->
           [W EXCEPT !.messages = Append(@, <<"chat", m.user, m.text>>)]
    )

\* data = in_socket.recv(1024): everything that has arrived; json.loads takes
\* exactly one object
Recv(W0, n, s) == With(W0, LAMBDA W :
    IF ~W.open[s] THEN [W EXCEPT !.err = "OSError"]
    ELSE IF W.rst[s] THEN [W EXCEPT !.err = "ConnectionResetError"]
    ELSE LET data == W.rcvbuf[s]
             W1 == [W EXCEPT !.rcvbuf[s] = <<>>]
         IN IF Len(data) = 0 THEN W1
            ELSE IF Len(data) > 1 THEN [W1 EXCEPT !.err = "JSONDecodeError"]
            ELSE Dispatch(W1, n, s, data[1])
    )

ReadOne(W0, n, s) == With(W0, LAMBDA W : IF s = SERVER THEN Accept(W, n) ELSE Recv(W, n, s))

RECURSIVE HandleReadable(_, _, _)
HandleReadable(W0, n, rd) == With(W0, LAMBDA W :
    IF rd = <<>> \/ W.err # "" THEN W
    ELSE HandleReadable(ReadOne(W, n, Head(rd)), n, Tail(rd))
    )

\* self.server.close(): connections not yet accepted are dropped with it
CloseServer(W0, n) == With(W0, LAMBDA W :
    [W EXCEPT !.listening[n] = FALSE,
              !.backlog[n] = <<>>,
              !.open = [s \in DOMAIN @ |->
                          @[s] /\ ~(~IsClientEnd(s) /\ ConnOf(s) \in Range(W.backlog[n]))]]
    )

\* self.close_all(); self.server.close()
Cleanup(W0, n) == With(W0, LAMBDA W :
    LET W1 == close_all(W) IN IF W1.err # "" THEN W1 ELSE CloseServer(W1, n)
    )

\* one pass of the while loop: select, the three for loops, the loop test
run(n) ==
    LET W1 == HandleExceptional(World(n), select_exceptional(n))
        W2 == HandleWritable(W1, select_writable(n))
        W3 == HandleReadable(W2, n, select_readable(n))
    IN IF W3.err = "" /\ ~running[n] THEN Cleanup(W3, n) ELSE W3

(* ------------------------------ processes ----------------------------- *)
\* the process of node n ends (or its ChatServer object is collected): every
\* socket it owns is closed
CloseOwned(W0, n) == With(W0, LAMBDA W :
    [W EXCEPT !.open = [s \in DOMAIN @ |-> @[s] /\ Owner(W.conn, s) # n],
              !.rst = [s \in DOMAIN @ |->
                         @[s] \/ /\ Owner(W.conn, s) # n /\ Owner(W.conn, Peer(s)) = n
                                 /\ W.open[s] /\ W.open[Peer(s)]
                                 /\ W.rcvbuf[Peer(s)] # <<>>],
              !.rcvbuf = [s \in DOMAIN @ |-> IF Owner(W.conn, s) = n THEN <<>> ELSE @[s]],
              !.oob = [s \in DOMAIN @ |-> @[s] /\ Owner(W.conn, s) # n],
              !.listening[n] = FALSE,
              !.backlog[n] = <<>>]
    )

\* ChatServer.__init__ and start(), then ChatClient's own
\* self.sock.connect(('localhost', port))
NewServer(W0, n) == With(W0, LAMBDA W :
    NewConn([W EXCEPT !.inputs = <<SERVER>>, !.outputs = <<>>,
                      !.message_queues = <<>>, !.clients = <<>>,
                      !.messages = <<>>, !.torn = {},
                      !.listening[n] = TRUE],
            n, n, TRUE)
    )

\* time.sleep(.1): the event loop has written what it can by the time it ends
Drained(n) ==
    \/ pc[n] # "select"
    \/ \A s \in Range(outputs[n]) :
          s \in DOMAIN message_queues[n] => message_queues[n][s] = <<>> \/ ~Writable(n, s)

NodeSeq == <<"a", "b", "c">>
\* the commands the users type: the chat lines (none starts with the escape
\* character), who connects to whom, who chats, who leaves
Texts == {"hi"}
JoinPairs == {<<"b", "a">>}
Chatters == {"a"}
Leavers == {"b"}

\* every node has constructed its ChatClient: the server thread is started and
\* the client socket is connected to it, not yet accepted
WorldInit ==
    /\ running = [n \in Nodes |-> TRUE]
    /\ inputs = [n \in Nodes |-> <<SERVER>>]
    /\ outputs = [n \in Nodes |-> <<>>]
    /\ message_queues = [n \in Nodes |-> <<>>]
    /\ clients = [n \in Nodes |-> <<>>]
    /\ messages = [n \in Nodes |-> <<>>]
    /\ pc = [n \in Nodes |-> "select"]
    /\ crash = [n \in Nodes |-> ""]
    /\ cmd = [n \in Nodes |-> "idle"]
    /\ sock = [n \in Nodes |-> ClientEnd(CHOOSE i \in DOMAIN NodeSeq : NodeSeq[i] = n)]
    /\ target = [n \in Nodes |-> n]
    /\ raised = [n \in Nodes |-> ""]
    /\ conn = [i \in DOMAIN NodeSeq |-> [from |-> NodeSeq[i], to |-> NodeSeq[i], lo |-> TRUE]]
    /\ listening = [n \in Nodes |-> TRUE]
    /\ backlog = [n \in Nodes |-> <<CHOOSE i \in DOMAIN NodeSeq : NodeSeq[i] = n>>]
    /\ rcvbuf = [s \in 1..(2 * Len(NodeSeq)) |-> <<>>]
    /\ open = [s \in 1..(2 * Len(NodeSeq)) |-> TRUE]
    /\ rst = [s \in 1..(2 * Len(NodeSeq)) |-> FALSE]
    /\ oob = [s \in 1..(2 * Len(NodeSeq)) |-> FALSE]
    /\ enq = [s \in 1..(2 * Len(NodeSeq)) |-> <<>>]
    /\ written = [s \in 1..(2 * Len(NodeSeq)) |-> <<>>]
    /\ calls = [n \in Nodes |-> <<>>]
    /\ torn = [n \in Nodes |-> {}]
    /\ njoin = 0 /\ nchat = 0 /\ nexit = 0 /\ nurgent = 0

NoMsg == [kind |-> "none"]

Init ==
    /\ WorldInit
    /\ codec_msg = NoMsg /\ codec_wire = NoMsg /\ codec_out = NoMsg
    /\ codec_pc = "off"

\* the process of node n is gone: its event-loop thread with it
Died(n) == [pc EXCEPT ![n] = IF @ = "select" THEN "dead" ELSE @]

(* ------------------------------- actions ------------------------------ *)
\* the event loop of node n wakes and runs one pass
Run(n) ==
    /\ pc[n] = "select"
    /\ SelectReady(n)
    /\ \E W \in {run(n)} :
        /\ W.err # "bound"
        /\ Commit(n, W)
        /\ pc' = [pc EXCEPT ![n] = IF W.err # "" THEN "crashed"
                                   ELSE IF running[n] THEN "select" ELSE "stopped"]
        /\ crash' = [crash EXCEPT ![n] = W.err]
    /\ UNCHANGED <<running, cmdvars, cntvars, codecvars>>

\* ChatClient.onecmd: a chat line is broadcast, then sent to the node's own server
ChatCmd(n, t) ==
    /\ cmd[n] = "idle"
    /\ nchat < MaxChats
    /\ Writable(n, sock[n])
    /\ LET mess == EncodeChat(n, t)
           W == Send(output_message(World(n), mess), sock[n], mess)
       IN /\ Commit(n, IF W.err = "" THEN W ELSE CloseOwned(W, n))
          /\ raised' = [raised EXCEPT ![n] = W.err]
          /\ cmd' = [cmd EXCEPT ![n] = IF W.err = "" THEN "idle" ELSE "exited"]
          /\ pc' = IF W.err = "" THEN pc ELSE Died(n)
    /\ nchat' = nchat + 1
    /\ UNCHANGED <<running, crash, sock, target, njoin, nexit, nurgent, codecvars>>

\* do_connect, first part: self.server.kill(); self.sock.close(); time.sleep(.1)
DoConnectKill(n, host) ==
    /\ cmd[n] = "idle"
    /\ njoin < MaxJoins
    /\ running' = [running EXCEPT ![n] = FALSE]
    /\ Commit(n, Close(World(n), sock[n]))
    /\ cmd' = [cmd EXCEPT ![n] = "connect_sleep"]
    /\ target' = [target EXCEPT ![n] = host]
    /\ njoin' = njoin + 1
    /\ UNCHANGED <<pc, crash, sock, raised, nchat, nexit, nurgent, codecvars>>

\* do_connect, second part: a new ChatServer replaces the old one, which has
\* stopped by the end of the sleep, and the client socket is connected to it
DoConnectReboot(n) ==
    /\ cmd[n] = "connect_sleep"
    /\ pc[n] # "select"
    /\ Len(conn) < MaxConn
    /\ Commit(n, NewServer(CloseOwned(World(n), n), n))
    /\ running' = [running EXCEPT ![n] = TRUE]
    /\ pc' = [pc EXCEPT ![n] = "select"]
    /\ crash' = [crash EXCEPT ![n] = ""]
    /\ sock' = [sock EXCEPT ![n] = ClientEnd(Len(conn) + 1)]
    /\ cmd' = [cmd EXCEPT ![n] = "connect_call"]
    /\ UNCHANGED <<target, raised, cntvars, codecvars>>

\* do_connect, last part: self.server.connect_to(host, port), then the request
\* for the peer's clients is broadcast; an exception ends the process
DoConnectCall(n) ==
    /\ cmd[n] = "connect_call"
    /\ LET W1 == connect_to(World(n), n, target[n], PORT)
           W == IF W1.err = "" THEN output_message(W1, EncodeRequest(n)) ELSE W1
       IN /\ W.err # "bound"
          /\ Commit(n, IF W.err = "" THEN W ELSE CloseOwned(W, n))
          /\ raised' = [raised EXCEPT ![n] = W.err]
          /\ cmd' = [cmd EXCEPT ![n] = IF W.err = "" THEN "idle" ELSE "exited"]
          /\ pc' = IF W.err = "" THEN pc ELSE Died(n)
    /\ UNCHANGED <<running, crash, sock, target, cntvars, codecvars>>

\* do_exit, first part: the two broadcasts, then time.sleep(.1)
DoExit(n, string) ==
    /\ cmd[n] = "idle"
    /\ nexit < MaxExits
    /\ Commit(n, output_message(output_message(World(n), EncodeChat(n, string)),
                                EncodeLeave(n)))
    /\ cmd' = [cmd EXCEPT ![n] = "exit_sleep"]
    /\ nexit' = nexit + 1
    /\ UNCHANGED <<running, pc, crash, sock, target, raised, njoin, nchat, nurgent, codecvars>>

\* ChatServer.kill, called by do_exit after the sleep
ExitKill(n) ==
    /\ cmd[n] = "exit_sleep"
    /\ Drained(n)
    /\ running' = [running EXCEPT ![n] = FALSE]
    /\ cmd' = [cmd EXCEPT ![n] = "exiting"]
    /\ UNCHANGED <<inputs, outputs, message_queues, clients, messages, pc, crash,
                   sock, target, raised, netvars, obsvars, cntvars, codecvars>>

\* exit(): the process ends
ProcessExit(n) ==
    /\ cmd[n] = "exiting"
    /\ Commit(n, CloseOwned(World(n), n))
    /\ cmd' = [cmd EXCEPT ![n] = "exited"]
    /\ pc' = Died(n)
    /\ UNCHANGED <<running, crash, sock, target, raised, cntvars, codecvars>>

\* the network delivers an urgent segment on a connection between two hosts
Urgent(n, s) ==
    /\ nurgent < MaxUrgent
    /\ s \in Range(inputs[n]) \ {SERVER}
    /\ open[s] /\ ~oob[s] /\ ~conn[ConnOf(s)].lo
    /\ oob' = [oob EXCEPT ![s] = TRUE]
    /\ nurgent' = nurgent + 1
    /\ UNCHANGED <<srvvars, cmdvars, conn, listening, backlog, rcvbuf, open, rst,
                   obsvars, njoin, nchat, nexit, codecvars>>

\* remove_connection is called once more on a handle it has removed
RemoveAgain(n, s) ==
    /\ cmd[n] # "exited"
    /\ s \in torn[n]
    /\ LET W == remove_connection(World(n), s)
       IN /\ Commit(n, W)
          /\ raised' = [raised EXCEPT ![n] = W.err]
    /\ UNCHANGED <<running, pc, crash, cmd, sock, target, cntvars, codecvars>>

Next ==
    \/ \E n \in Nodes : Run(n)
    \/ \E n \in Chatters, t \in Texts : ChatCmd(n, t)
    \/ \E p \in JoinPairs : DoConnectKill(p[1], p[2])
    \/ \E n \in Nodes : DoConnectReboot(n)
    \/ \E n \in Nodes : DoConnectCall(n)
    \/ \E n \in Leavers : DoExit(n, "")
    \/ \E n \in Nodes : ExitKill(n)
    \/ \E n \in Nodes : ProcessExit(n)
    \/ \E n \in Nodes, s \in DOMAIN open : Urgent(n, s)
    \/ \E n \in Nodes, s \in DOMAIN open : RemoveAgain(n, s)

Spec == Init /\ [][Next]_vars

(* -------------- the join chain: b joins a, then c joins b ------------- *)
\* the first join is typed at b or at a; c joins b once b's command has returned
MeshJoin ==
    \/ njoin = 0 /\ DoConnectKill("b", "a")
    \/ njoin = 0 /\ DoConnectKill("a", "b")
    \/ njoin = 1 /\ cmd["b"] = "idle" /\ DoConnectKill("c", "b")

MeshNext ==
    \/ \E n \in Nodes : Run(n)
    \/ MeshJoin
    \/ \E n \in Nodes : DoConnectReboot(n)
    \/ \E n \in Nodes : DoConnectCall(n)

\* every thread that can run does run: the event loops, and a command thread
\* inside do_connect
MeshSpec ==
    /\ Init
    /\ [][MeshNext]_vars
    /\ \A n \in Nodes : WF_vars(Run(n))
    /\ \A n \in Nodes : WF_vars(DoConnectReboot(n))
    /\ \A n \in Nodes : WF_vars(DoConnectCall(n))

(* ------- a peer leaves the chain: b joins a, c joins b, a exits ------- *)
LeaveScript ==
    \/ njoin = 0 /\ DoConnectKill("b", "a")
    \/ njoin = 1 /\ cmd["b"] = "idle" /\ DoConnectKill("c", "b")
    \/ njoin >= 1 /\ cmd["b"] = "idle" /\ DoExit("a", "")

LeaveNext ==
    \/ \E n \in Nodes : Run(n)
    \/ LeaveScript
    \/ \E n \in Nodes : DoConnectReboot(n)
    \/ \E n \in Nodes : DoConnectCall(n)
    \/ \E n \in Nodes : ExitKill(n)
    \/ \E n \in Nodes : ProcessExit(n)

LeaveSpec == Init /\ [][LeaveNext]_vars

(* ------------------------ the wire codec alone ------------------------ *)
MaxPeers == 3
CodecUsers == {"bob", "a"}
CodecTexts == {"hi", "", EXIT, CLIENTS}
CodecEndpoints == {<<LOOPBACK, 1>>, <<"a", PORT>>, <<"b", 2>>}
RECURSIVE SeqsUpTo(_, _)
SeqsUpTo(S, k) ==
    IF k = 0 THEN {<<>>}
    ELSE LET shorter == SeqsUpTo(S, k - 1)
         IN shorter \cup {Append(q, x) : q \in shorter, x \in S}
CodecMessages ==
    {Chat(u, t) : u \in CodecUsers, t \in CodecTexts}
    \cup {Leave(u) : u \in CodecUsers}
    \cup {MembershipRequest(u) : u \in CodecUsers}
    \cup {MembershipResponse(ps) : ps \in SeqsUpTo(CodecEndpoints, MaxPeers)}

CodecInit ==
    /\ WorldInit
    /\ codec_msg \in CodecMessages
    /\ codec_wire = NoMsg /\ codec_out = NoMsg
    /\ codec_pc = "encode"

CodecEncode ==
    /\ codec_pc = "encode"
    /\ codec_wire' = Encode(codec_msg)
    /\ codec_pc' = "decode"
    /\ UNCHANGED <<codec_msg, codec_out, srvvars, cmdvars, netvars, obsvars, cntvars>>

CodecDecode ==
    /\ codec_pc = "decode"
    /\ codec_out' = Decode(codec_wire)
    /\ codec_pc' = "done"
    /\ UNCHANGED <<codec_msg, codec_wire, srvvars, cmdvars, netvars, obsvars, cntvars>>

CodecNext == CodecEncode \/ CodecDecode

CodecSpec == CodecInit /\ [][CodecNext]_vars

(* =============================== claims =============================== *)
\* the hosts a registry holds a connection to
Hosts(d) == {d[i][2][1] : i \in DOMAIN d}

\* the event loop of n's process reads socket s in this step
Reads(n, s) ==
    /\ Owner(conn, s) = n
    /\ s \in Range(inputs[n])
    /\ pc[n] = "select"
    /\ cmd' = cmd
    /\ rcvbuf[s] # <<>>
    /\ rcvbuf'[s] = <<>>

\* what it reads is one client list
ReadsResponse(n, s) ==
    /\ Reads(n, s)
    /\ Len(rcvbuf[s]) = 1
    /\ "clients" \in DOMAIN rcvbuf[s][1]

\* a client list of three: a loopback entry, n's own address, one other host
ThreeEntry(n, ps) ==
    /\ Len(ps) = 3
    /\ \E i, j, k \in 1..3 :
          /\ ps[i][1] = LOOPBACK
          /\ ps[j][1] = n
          /\ ps[k][1] \notin {LOOPBACK, n}
OtherEntry(n, ps) == ps[CHOOSE k \in 1..3 : ps[k][1] \notin {LOOPBACK, n}]

\* C1: at every node a handle is a key of clients if and only if it is in inputs
\* (the listening socket aside), in outputs, and a key of message_queues
RegistryInvariant ==
    \A n \in Nodes : \A s \in DOMAIN open :
        s \in Keys(clients[n]) <=>
            /\ s \in Range(inputs[n]) \ {SERVER}
            /\ s \in Range(outputs[n])
            /\ s \in DOMAIN message_queues[n]

\* C1 witness: a running node that has accepted a connection, opened one with
\* connect_to and removed one, its registry still holding the accepted one
RegistryWitness ==
    \E n \in Nodes :
        /\ pc[n] = "select" /\ torn[n] # {} /\ calls[n] # <<>>
        /\ \E s \in Keys(clients[n]) : ~IsClientEnd(s)

\* C2: on every registered connection whose socket has not failed, what the event
\* loop has written followed by what is still queued is what was enqueued, in order
PerConnectionFIFO ==
    \A n \in Nodes : \A s \in DOMAIN message_queues[n] :
        ~rst[s] => written[s] \o message_queues[n][s] = enq[s]

\* C2 witness: a registered connection on which three different messages were
\* enqueued and the event loop has written at least two of them
FIFOWitness ==
    \E n \in Nodes : \E s \in DOMAIN message_queues[n] :
        /\ ~rst[s] /\ Len(written[s]) >= 2 /\ Len(enq[s]) >= 3
        /\ Cardinality(Range(enq[s])) = Len(enq[s])

\* C3: remove_connection called again on a handle it has removed raises nothing
SecondTeardownRaisesNothing ==
    \A n \in Nodes : raised[n] \notin {"ValueError", "KeyError"}

\* C5: an event loop that read bytes it could not decode is still running
DecodeFailureKeepsLoopRunning ==
    \A n \in Nodes : crash[n] = "JSONDecodeError" => pc[n] = "select"

\* C9: an event loop whose kill was called and which has not stopped yet is not
\* left waiting in select with no socket ready
KillWakesLoop ==
    \A n \in Nodes : (~running[n] /\ pc[n] = "select") => SelectReady(n)

\* C11: in one step at most one message leaves the queue of a registered connection
\* and is written to its socket, the oldest one; nothing is written on a
\* connection whose queue is empty
OneMessagePerWake ==
    [][\A n \in Nodes : \A s \in DOMAIN message_queues[n] :
          /\ \/ written'[s] = written[s]
             \/ /\ message_queues[n][s] # <<>>
                /\ written'[s] = Append(written[s], Head(message_queues[n][s]))
          /\ s \in DOMAIN message_queues'[n] =>
                Len(message_queues'[n][s]) >= Len(message_queues[n][s]) - 1]_vars

\* C11 witness: the two messages do_exit enqueued together were in a queue when
\* the event loop woke; the first is written, the second still queued
OneMessageWitness ==
    \E n \in Nodes : \E s \in DOMAIN message_queues[n] :
        /\ message_queues[n][s] = <<EncodeLeave(n)>>
        /\ written[s] # <<>>
        /\ written[s][Len(written[s])] = EncodeChat(n, "")

\* sequence p is a prefix of sequence q
IsPrefix(p, q) == Len(p) <= Len(q) /\ SubSeq(q, 1, Len(p)) = p

\* C12: across every step the transcript of a node (self.messages of its current
\* ChatServer) keeps what it held as a prefix
TranscriptAppendOnly ==
    [][\A n \in Nodes : IsPrefix(messages[n], messages'[n])]_vars

\* the sockets at other nodes of the peer connections of n on which n's do_exit
\* enqueued its leave message
LeftPeerSockets(n) ==
    {s \in DOMAIN open : /\ ~conn[ConnOf(s)].lo
                          /\ Owner(conn, Peer(s)) = n
                          /\ EncodeLeave(n) \in Range(enq[Peer(s)])}

\* C13: once a node has left, every peer that still holds its connection to that
\* node has a running event loop, which can still read the leave message and
\* tear the connection down
LeaveDelivered ==
    \A n \in Nodes : cmd[n] = "exited" =>
        \A s \in LeftPeerSockets(n) :
            s \in Keys(clients[Owner(conn, s)]) => pc[Owner(conn, s)] = "select"

\* the event loop of n makes a pass in this step and comes back to select: only
\* the event loop writes on the sockets n's ChatServer has registered
LoopPassed(n) ==
    /\ pc[n] = "select" /\ pc'[n] = "select"
    /\ \E t \in DOMAIN message_queues[n] : written'[t] # written[t]

\* a read on s returns zero bytes: the peer has closed and nothing is left unread
AtEndOfFile(s) == open[s] /\ ~open[Peer(s)] /\ ~rst[s] /\ rcvbuf[s] = <<>> /\ ~oob[s]

\* C14: a pass of the event loop that makes a zero-length read on a peer
\* connection leaves the handle out of the registry
ZeroLengthReadTearsDown ==
    [][\A n \in Nodes : \A s \in Range(inputs[n]) \ {SERVER} :
          (LoopPassed(n) /\ AtEndOfFile(s)) => s \notin Keys(clients'[n])]_vars

\* C15: an event loop that removed a connection in the exceptional loop of a pass
\* does not end in the same pass on a lookup of the removed queue (KeyError) or
\* a read on the closed socket (OSError)
ExceptionalTeardownKeepsLoopRunning ==
    \A n \in Nodes :
        (torn[n] # {} /\ crash[n] \in {"KeyError", "OSError"}) => pc[n] = "select"

\* C16: an event loop whose send on a connection failed is still running
WriteFailureKeepsLoopRunning ==
    \A n \in Nodes : crash[n] = "BrokenPipeError" => pc[n] = "select"

\* C17: a step of the command thread of a node (one that moves it through a
\* command, the construction of a new ChatServer aside) leaves the connection
\* set, the keys of the queue map and the registry of the node as they were
CommandThreadLeavesRegistryAlone ==
    [][\A n \in Nodes :
          (cmd'[n] # cmd[n] /\ cmd[n] # "connect_sleep") =>
              /\ inputs'[n] = inputs[n]
              /\ outputs'[n] = outputs[n]
              /\ DOMAIN message_queues'[n] = DOMAIN message_queues[n]
              /\ clients'[n] = clients[n]]_vars

\* in this step the event loop of n, not in its last pass, reads one request for
\* the client list on socket s and nothing on any other socket
ReadsOnlyRequest(n, s) ==
    /\ Reads(n, s) /\ running[n]
    /\ Len(rcvbuf[s]) = 1
    /\ Decode(rcvbuf[s][1]).kind = "MembershipRequest"
    /\ backlog[n] = <<>>
    /\ \A t \in Range(inputs[n]) \ {SERVER} : ~oob[t] /\ (t # s => rcvbuf[t] = <<>>)

\* C18: a node that reads a request for the client list on a connection enqueues
\* one client list on the queue of that connection, the values of its registry;
\* nothing is enqueued on another queue, and the registry and the transcript
\* stay as they were
RequestAnsweredOnItsConnection ==
    [][\A n \in Nodes : \A s \in DOMAIN message_queues[n] :
          ReadsOnlyRequest(n, s) =>
              /\ enq'[s] = Append(enq[s], EncodeResponse(Values(clients[n])))
              /\ \A t \in DOMAIN message_queues[n] \ {s} : enq'[t] = enq[t]
              /\ DOMAIN message_queues'[n] = DOMAIN message_queues[n]
              /\ clients'[n] = clients[n]
              /\ messages'[n] = messages[n]]_vars

\* C18 witness: a node with two connections or more has a client list queued on
\* one of them, the values of its registry, and has enqueued none on another
RequestAnsweredWitness ==
    \E n \in Nodes : \E s, t \in DOMAIN message_queues[n] :
        /\ s # t /\ pc[n] = "select"
        /\ message_queues[n][s] = <<EncodeResponse(Values(clients[n]))>>
        /\ \A i \in DOMAIN enq[t] : "clients" \notin DOMAIN enq[t][i]

\* the sockets of the peer connections node n has opened with connect_to
OpenedPeerSockets(n) ==
    {s \in DOMAIN open : IsClientEnd(s) /\ ~conn[ConnOf(s)].lo /\ conn[ConnOf(s)].from = n}

\* C19: as long as no connection met an exceptional condition (no peer of a node
\* that connects leaves in these runs), a node whose connect commands have
\* returned and whose event loop runs holds every peer connection it has opened
\* in its registry: a later do_connect has kept the earlier ones
RequestConnectKeepsPeers ==
    nurgent = 0 =>
        \A n \in Nodes :
            (cmd[n] = "idle" /\ pc[n] = "select") =>
                OpenedPeerSockets(n) \subseteq Keys(clients[n])

\* an encoded request for the client list, or an encoded client list
IsMembership(data) ==
    "clients" \in DOMAIN data \/ data.message = CLIENTS

\* C20: a membership message that has been written to a connection and is not
\* read yet waits on a socket that an event loop has registered or is about to
\* accept, so that it is read and the system can come to rest with none in flight
MembershipMessagesAreRead ==
    \A s \in DOMAIN rcvbuf :
        (\E i \in DOMAIN rcvbuf[s] : IsMembership(rcvbuf[s][i])) =>
            \/ s \in Range(inputs[Owner(conn, s)])
            \/ ~IsClientEnd(s) /\ ConnOf(s) \in Range(backlog[Owner(conn, s)])

\* C10: an event loop whose gossip handler called a connect_to that failed is
\* still running
ConnectFailureKeepsLoopRunning ==
    \A n \in Nodes : crash[n] = "ConnectionRefusedError" => pc[n] = "select"

Joiner == CHOOSE n \in Nodes : target[n] # n
\* the client lists written so far on socket s
ResponsesOn(s) ==
    {written[s][i].clients : i \in {k \in DOMAIN written[s] : "clients" \in DOMAIN written[s][k]}}
\* the sockets of the joined node on which it answers the joiner
ReplySockets ==
    {s \in DOMAIN written : /\ Owner(conn, s) = target[Joiner]
                            /\ Owner(conn, Peer(s)) = Joiner
                            /\ ~conn[ConnOf(s)].lo}
\* the joiner has read the reply
ReplyRead(s) == ResponsesOn(s) # {} /\ rcvbuf[Peer(s)] = <<>> /\ pc[Joiner] = "select"

\* C6 as stated: when one node joins another that knows no other peer, the reply
\* is a client list that is empty, and afterwards the joiner's connection to the
\* joined node is the only entry of the joiner's registry
TwoNodeJoinReplyEmpty ==
    njoin = 1 =>
        \A s \in ReplySockets :
            /\ \A ps \in ResponsesOn(s) : ps = <<>>
            /\ ReplyRead(s) => Keys(clients[Joiner]) = {Peer(s)}

\* C6 as amended: the reply lists the registry of the joined node, which holds its
\* own loopback client connection and the joiner's connection; the joiner connects
\* to neither, and afterwards its connection to the joined node is the only entry
\* of its registry that is not its own loopback connection
TwoNodeJoinReply ==
    njoin = 1 =>
        \A s \in ReplySockets :
            /\ \A ps \in ResponsesOn(s) :
                  /\ ps = Values(clients[target[Joiner]])
                  /\ {ps[i][1] : i \in DOMAIN ps} = {LOOPBACK, Joiner}
            /\ ReplyRead(s) =>
                  /\ calls[Joiner] = << <<target[Joiner], PORT>> >>
                  /\ {k \in Keys(clients[Joiner]) : ~conn[ConnOf(k)].lo} = {Peer(s)}
                  /\ Hosts(clients[Joiner]) \subseteq {target[Joiner], LOOPBACK}

\* C6 witness: b has joined a, a has answered and b has read the answer
TwoNodeJoinWitness ==
    /\ njoin = 1 /\ Joiner = "b" /\ target["b"] = "a"
    /\ \E s \in ReplySockets : ReplyRead(s)

\* the hosts n's registry holds an open connection to
LiveHosts(n) ==
    {clients[n][i][2][1] : i \in {k \in DOMAIN clients[n] : open[clients[n][k][1]]
                                                           /\ open[Peer(clients[n][k][1])]}}
\* b has joined a and then c has joined b
ChainJoined ==
    /\ njoin = 2 /\ target["b"] = "a" /\ target["c"] = "b"
    /\ cmd["c"] = "idle"
MeshClosed == {"a", "b"} \subseteq LiveHosts("c")

\* C7: once b has joined a and c has then joined b, c comes to hold a direct
\* connection to a and one to b, and keeps them
MeshClosure == ChainJoined ~> [](MeshClosed)

\* C7 witness: the chain is joined and c holds connections to a and to b
MeshClosureWitness == ChainJoined /\ MeshClosed /\ calls["c"] = << <<"b", PORT>>, <<"a", PORT>> >>

\* C8: decoding the encoding of a message gives the same variant with the same
\* field values
CodecRoundTrip == codec_pc = "done" => SameMessage(codec_out, codec_msg)

====
